---- MODULE Spec2Model ----
(***************************************************************************)
(* Tasks API (backend_api/src/api): the task table and the seven request   *)
(* handlers of main.py, with the request validation of schemas.py and the  *)
(* Task row of models.py.                                                  *)
(*                                                                         *)
(* Text values are sequences of one-character strings.  A Python           *)
(* Optional[...] value is None or Some(v); a JSON body field is Omitted    *)
(* (key absent), None (JSON null) or Some(v).                              *)
(***************************************************************************)
EXTENDS Integers, Sequences, FiniteSets, TLC

VARIABLES
    store,      \* table "tasks": id -> row
    nextId,     \* next value of the primary-key sequence
    clock,      \* datetime.now(timezone.utc), read by create and touch
    last,       \* the request served last and its response
    prev,       \* the list request served just before `last`, if both are lists
    sess,       \* per worker: the ORM session of a request being served
    lastCommit  \* the worker whose transaction committed last

vars == <<store, nextId, clock, last, prev, sess, lastCommit>>

----------------------------------------------------------------------------
(* Bounds of the model *)

MaxTasks == 2
MaxClock == 1

(* Program constants *)

TitleMinLength == 1
TitleMaxLength == 255
PageSizeMax == 100

----------------------------------------------------------------------------
(* Values *)

None == [k |-> "null"]
Omitted == [k |-> "omitted"]
Some(v) == [k |-> "val", v |-> v]
IsSome(o) == o.k = "val"

PENDING == "pending"
COMPLETED == "completed"
TaskStatus == {PENDING, COMPLETED}

Ids == 1..MaxTasks
Workers == {1, 2}

GoodTitles == { <<" ", "a">>, <<"B">> }
BlankTitles == { <<>>, <<" ">> }
Descriptions == { "d" }
Queries == { None, Some(<<>>), Some(<<"A">>), Some(<<"_">>) }
Pages == 0..3
PageSizes == {1, 2}

\* JSON bodies of POST /tasks and PUT /tasks/{task_id}: the accepted ones, a
\* blank title, a status outside the enum
CreateBodies ==
    [title : {Some(t) : t \in GoodTitles},
     description : {Omitted} \cup {Some(d) : d \in Descriptions},
     status : {Omitted, Some(COMPLETED)}]
    \cup [title : {Some(t) : t \in BlankTitles},
          description : {Omitted}, status : {Omitted}]
    \cup [title : {Some(<<"B">>)}, description : {Omitted}, status : {Some("done")}]

\* JSON bodies of PATCH /tasks/{task_id}
UpdateBodies ==
    [title : {Omitted} \cup {Some(t) : t \in GoodTitles},
     description : {Omitted, None} \cup {Some(d) : d \in Descriptions},
     status : {Omitted, Some(COMPLETED)}]
    \cup [title : {Some(t) : t \in BlankTitles},
          description : {Omitted}, status : {Omitted}]

NoBody == [title |-> Omitted, description |-> Omitted, status |-> Omitted]

\* the bodies of the requests that two workers serve at the same time
ConcCreateBodies ==
    [title : {Some(<<" ", "a">>), Some(<<"B">>)},
     description : {Omitted},
     status : {Omitted}]

ConcUpdateBodies ==
    [title : {Omitted, Some(<<"B">>)},
     description : {Omitted},
     status : {Omitted, Some(COMPLETED)}]

----------------------------------------------------------------------------
(* str.strip() *)

IsSpace(c) == c = " "

RECURSIVE LStrip(_)
LStrip(s) ==
    IF s # <<>> /\ IsSpace(Head(s)) THEN LStrip(Tail(s)) ELSE s

RECURSIVE RStrip(_)
RStrip(s) ==
    IF s # <<>> /\ IsSpace(s[Len(s)]) THEN RStrip(SubSeq(s, 1, Len(s) - 1)) ELSE s

Strip(s) == RStrip(LStrip(s))

----------------------------------------------------------------------------
(* schemas.py: request validation *)

TitleFieldOk(v) == Len(v) >= TitleMinLength /\ Len(v) <= TitleMaxLength

\* title_not_empty without its check
NoTitleCheck(v) == TRUE

\* TaskBase.title_not_empty: raises unless v.strip() is non-empty
title_not_empty(v) == Strip(v) # <<>>

\* TaskUpdate.title_not_empty_if_present
title_not_empty_if_present(o) == IsSome(o) => Strip(o.v) # <<>>

StatusFieldOk(o) == IsSome(o) => o.v \in TaskStatus

\* TaskCreate(**body) succeeds
TaskCreateValid(body) ==
    /\ IsSome(body.title)
    /\ TitleFieldOk(body.title.v)
    /\ title_not_empty(body.title.v)
    /\ body.status # None
    /\ StatusFieldOk(body.status)

\* the validated TaskCreate model
TaskCreate(body) ==
    [title |-> Strip(body.title.v),
     description |-> IF IsSome(body.description) THEN body.description ELSE None,
     status |-> IF IsSome(body.status) THEN body.status.v ELSE PENDING]

\* TaskUpdate(**body) succeeds
TaskUpdateValid(body) ==
    /\ IsSome(body.title) => TitleFieldOk(body.title.v)
    /\ title_not_empty_if_present(body.title)
    /\ StatusFieldOk(body.status)

\* the validated TaskUpdate model: an omitted field takes its default, None
TaskUpdate(body) ==
    [title |-> IF IsSome(body.title) THEN Some(Strip(body.title.v)) ELSE None,
     description |-> IF IsSome(body.description) THEN body.description ELSE None,
     status |-> IF IsSome(body.status) THEN body.status ELSE None]

\* Query(1, ge=1), Query(10, ge=1, le=100)
ListParamsValid(page, page_size) ==
    page >= 1 /\ page_size >= 1 /\ page_size <= PageSizeMax

----------------------------------------------------------------------------
(* models.py: the Task row *)

Task(id, title, description, status, now) ==
    [id |-> id, title |-> title, description |-> description, status |-> status,
     created_at |-> now, updated_at |-> now]

\* touch writing the other timestamp column
TouchCreated(task, now) == [task EXCEPT !.created_at = now]

\* Task.touch
touch(task, now) == [task EXCEPT !.updated_at = now]

Columns == {"id", "title", "description", "status", "created_at", "updated_at"}

----------------------------------------------------------------------------
(* The ORM session: db.get, db.add + db.commit, db.delete + db.commit *)

Found(st, id) == id \in DOMAIN st

\* INSERT
Insert(st, task) == st @@ (task.id :> task)

\* The unit of work's UPDATE ... WHERE id = :id sets the columns whose value in
\* memory differs from the value loaded by db.get, and no other column.
Flush(st, loaded, task) ==
    [st EXCEPT ![task.id] =
        [c \in Columns |-> IF task[c] # loaded[c] THEN task[c] ELSE st[task.id][c]]]

\* DELETE
DeleteRow(st, id) == [i \in DOMAIN st \ {id} |-> st[i]]

----------------------------------------------------------------------------
(* main.py: what each handler does to the task it loaded *)

\* create_task: lines 98-105
NewTask(id, payload, now) ==
    Task(id, Strip(payload.title), payload.description, payload.status, now)

\* update_task: lines 141-144
ApplyReplace(task, payload, now) ==
    touch([task EXCEPT !.title = Strip(payload.title),
                       !.description = payload.description,
                       !.status = payload.status], now)

\* patch_task without the `is not None` test on description
ApplyPatchUnguarded(task, payload, now) ==
    touch([task EXCEPT
             !.title = IF payload.title # None THEN Strip(payload.title.v) ELSE @,
             !.description = payload.description,
             !.status = IF payload.status # None THEN payload.status.v ELSE @],
          now)

\* patch_task: lines 182-188
ApplyPatch(task, payload, now) ==
    touch([task EXCEPT
             !.title = IF payload.title # None THEN Strip(payload.title.v) ELSE @,
             !.description = IF payload.description # None
                             THEN payload.description ELSE @,
             !.status = IF payload.status # None THEN payload.status.v ELSE @],
          now)

\* a toggle that only ever completes
FlipToCompleted(status) == COMPLETED

\* toggle_task_status: line 209
Flip(status) == IF status = PENDING THEN COMPLETED ELSE PENDING

\* toggle_task_status: lines 209-210
ApplyToggle(task, now) == touch([task EXCEPT !.status = Flip(@)], now)

----------------------------------------------------------------------------
(* main.py: list_tasks *)

Lower(c) == CASE c = "A" -> "a" [] c = "B" -> "b" [] OTHER -> c

LowerSeq(s) == [i \in 1..Len(s) |-> Lower(s[i])]

\* LIKE: "%" matches any run of characters, "_" any one character
RECURSIVE LikeMatch(_, _)
LikeMatch(pat, s) ==
    IF pat = <<>> THEN s = <<>>
    ELSE IF Head(pat) = "%"
         THEN LikeMatch(Tail(pat), s) \/ (s # <<>> /\ LikeMatch(pat, Tail(s)))
         ELSE /\ s # <<>>
              /\ (Head(pat) = "_" \/ Head(pat) = Head(s))
              /\ LikeMatch(Tail(pat), Tail(s))

\* Task.title.ilike(pattern)
ILike(title, pat) == LikeMatch(LowerSeq(pat), LowerSeq(title))

\* `if q:` -- q is neither None nor the empty string
Truthy(q) == IsSome(q) /\ q.v # <<>>

\* ilike_expr = f"%{q}%"
IlikeExpr(q) == <<"%">> \o q.v \o <<"%">>

\* the WHERE clause of stmt
StmtWhere(st, q) ==
    {id \in DOMAIN st : Truthy(q) => ILike(st[id].title, IlikeExpr(q))}

\* count_stmt without its WHERE clause
CountAll(st, q) == DOMAIN st

\* the WHERE clause of count_stmt
CountWhere(st, q) ==
    {id \in DOMAIN st : Truthy(q) => ILike(st[id].title, IlikeExpr(q))}

\* db.execute(count_stmt).scalar_one()
Total(st, q) == Cardinality(CountWhere(st, q))

\* the offset of a 0-based page number
OffsetFromZero(page, page_size) == page * page_size

\* offset = (page - 1) * page_size
Offset(page, page_size) == (page - 1) * page_size

\* ORDER BY created_at DESC: every arrangement of the rows in which created_at
\* never increases; rows with equal created_at come in any order.
OrderBy(st, ids) ==
    {s \in [1..Cardinality(ids) -> ids] :
        /\ \A i, j \in DOMAIN s : i # j => s[i] # s[j]
        /\ \A i, j \in DOMAIN s : i < j => st[s[i]].created_at >= st[s[j]].created_at}

\* OFFSET offset LIMIT page_size
OffsetLimit(s, offset, limit) ==
    SubSeq(s, offset + 1, IF offset + limit < Len(s) THEN offset + limit ELSE Len(s))

----------------------------------------------------------------------------
(* main.py: the handlers, each a whole request served with no other request
   in between.  Each gives the response code and the table afterwards. *)

Result(code, st) == [code |-> code, store |-> st]

\* POST /tasks
create_task(st, id, body, now) ==
    IF ~TaskCreateValid(body) THEN Result(422, st)
    ELSE Result(201, Insert(st, NewTask(id, TaskCreate(body), now)))

\* GET /tasks/{task_id}
get_task(st, id) ==
    IF ~Found(st, id) THEN Result(404, st) ELSE Result(200, st)

\* PUT /tasks/{task_id}
update_task(st, id, body, now) ==
    IF ~TaskCreateValid(body) THEN Result(422, st)
    ELSE IF ~Found(st, id) THEN Result(404, st)
    ELSE Result(200, Flush(st, st[id], ApplyReplace(st[id], TaskCreate(body), now)))

\* delete_task answering 204 whether or not the row exists
delete_task_quiet(st, id) ==
    Result(204, IF Found(st, id) THEN DeleteRow(st, id) ELSE st)

\* DELETE /tasks/{task_id}
delete_task(st, id) ==
    IF ~Found(st, id) THEN Result(404, st) ELSE Result(204, DeleteRow(st, id))

\* PATCH /tasks/{task_id}
patch_task(st, id, body, now) ==
    IF ~TaskUpdateValid(body) THEN Result(422, st)
    ELSE IF ~Found(st, id) THEN Result(404, st)
    ELSE Result(200, Flush(st, st[id], ApplyPatch(st[id], TaskUpdate(body), now)))

\* PATCH /tasks/{task_id}/toggle
toggle_task_status(st, id, now) ==
    IF ~Found(st, id) THEN Result(404, st)
    ELSE Result(200, Flush(st, st[id], ApplyToggle(st[id], now)))

\* GET /tasks: the pages list_tasks may return (ids of the items, in order)
list_tasks(st, page, page_size, q) ==
    {[total |-> Total(st, q),
      items |-> OffsetLimit(s, Offset(page, page_size), page_size)] :
        s \in OrderBy(st, StmtWhere(st, q))}

----------------------------------------------------------------------------
(* State *)

NoStatus == "none"

\* a request for one task and its response
Served(op, id, body, code) == [op |-> op, id |-> id, body |-> body, code |-> code]

\* a toggle request and its response
ServedToggle(id, code, before1, before2) ==
    [op |-> "toggle", id |-> id, code |-> code,
     before1 |-> before1, before2 |-> before2]

\* a list request and its response
ServedList(page, page_size, q, code, total, items) ==
    [op |-> "list", page |-> page, page_size |-> page_size, q |-> q,
     code |-> code, total |-> total, items |-> items]

NoRequest == [op |-> "none"]

\* a worker's session: the request, the row db.get loaded, the task in memory
Session(pc, op, id, body, loaded, task, code) ==
    [pc |-> pc, op |-> op, id |-> id, body |-> body,
     loaded |-> loaded, task |-> task, code |-> code]

\* a session that ended before db.get gave a row
Ended(op, id, body, code) == [pc |-> "done", op |-> op, id |-> id, body |-> body, code |-> code]

IdleSession == [pc |-> "idle"]

Init ==
    /\ store = [i \in {} |-> None]
    /\ nextId = 1
    /\ clock = 0
    /\ last = NoRequest
    /\ prev = NoRequest
    /\ sess = [w \in Workers |-> IdleSession]
    /\ lastCommit = 0

\* time passes between two requests
Tick ==
    /\ last = NoRequest
    /\ clock < MaxClock
    /\ clock' = clock + 1
    /\ UNCHANGED <<store, nextId, last, prev, sess, lastCommit>>

\* the response is sent; the requests of `keep` are remembered as the previous one
Respond(keep) ==
    /\ last # NoRequest
    /\ last' = NoRequest
    /\ prev' = IF last.op \in keep /\ last.code = 200 THEN last ELSE NoRequest
    /\ UNCHANGED <<store, nextId, clock, sess, lastCommit>>

Create ==
    \E body \in CreateBodies :
        LET r == create_task(store, nextId, body, clock) IN
        /\ last = NoRequest
        /\ nextId <= MaxTasks
        /\ store' = r.store
        /\ nextId' = IF r.code = 201 THEN nextId + 1 ELSE nextId
        /\ last' = Served("create", IF r.code = 201 THEN nextId ELSE 0, body, r.code)
        /\ UNCHANGED <<clock, prev, sess, lastCommit>>

GetById ==
    \E id \in Ids :
        LET r == get_task(store, id) IN
        /\ last = NoRequest
        /\ store' = r.store
        /\ last' = Served("get", id, NoBody, r.code)
        /\ UNCHANGED <<nextId, clock, prev, sess, lastCommit>>

Replace ==
    \E id \in Ids, body \in CreateBodies :
        LET r == update_task(store, id, body, clock) IN
        /\ last = NoRequest
        /\ store' = r.store
        /\ last' = Served("replace", id, body, r.code)
        /\ UNCHANGED <<nextId, clock, prev, sess, lastCommit>>

Patch ==
    \E id \in Ids, body \in UpdateBodies :
        LET r == patch_task(store, id, body, clock) IN
        /\ last = NoRequest
        /\ store' = r.store
        /\ last' = Served("patch", id, body, r.code)
        /\ UNCHANGED <<nextId, clock, prev, sess, lastCommit>>

\* before1: the status the task had before this call; before2: its status before
\* the previous request, when that was a toggle of the same task
Toggle ==
    \E id \in Ids :
        LET r == toggle_task_status(store, id, clock) IN
        /\ last = NoRequest
        /\ store' = r.store
        /\ last' = ServedToggle(id, r.code,
                      IF r.code = 200 THEN store[id].status ELSE NoStatus,
                      IF r.code = 200 /\ prev.op = "toggle" /\ prev.id = id
                      THEN prev.before1 ELSE NoStatus)
        /\ UNCHANGED <<nextId, clock, prev, sess, lastCommit>>

Delete ==
    \E id \in Ids :
        LET r == delete_task(store, id) IN
        /\ last = NoRequest
        /\ store' = r.store
        /\ last' = Served("delete", id, NoBody, r.code)
        /\ UNCHANGED <<nextId, clock, prev, sess, lastCommit>>

List ==
    \E page \in Pages, page_size \in PageSizes, q \in Queries :
        /\ last = NoRequest
        /\ IF ~ListParamsValid(page, page_size)
           THEN last' = ServedList(page, page_size, q, 422, 0, <<>>)
           ELSE \E r \in list_tasks(store, page, page_size, q) :
                   last' = ServedList(page, page_size, q, 200, r.total, r.items)
        /\ UNCHANGED <<store, nextId, clock, prev, sess, lastCommit>>

\* the requests that change or read one task
Next ==
    \/ Tick
    \/ Create
    \/ GetById
    \/ Replace
    \/ Patch
    \/ Toggle
    \/ Delete
    \/ Respond({})

Spec == Init /\ [][Next]_vars

\* toggles, each remembered for the next request
NextToggle ==
    \/ Tick
    \/ Create
    \/ Toggle
    \/ Delete
    \/ Respond({"toggle"})

SpecToggle == Init /\ [][NextToggle]_vars

\* list requests over the tables that create and delete build
NextList ==
    \/ Tick
    \/ Create
    \/ Delete
    \/ List
    \/ Respond({})

SpecList == Init /\ [][NextList]_vars

\* the same, each list response remembered for the next request
NextPages ==
    \/ Tick
    \/ Create
    \/ Delete
    \/ List
    \/ Respond({"list"})

SpecPages == Init /\ [][NextPages]_vars

----------------------------------------------------------------------------
(* Two workers serving requests at the same time, each in its own session and
   transaction (get_db).  A handler reads the row with db.get and changes the
   task in memory; db.commit then writes and commits.  The database is at its
   default isolation level, READ COMMITTED: a transaction sees what was
   committed before each of its statements. *)

Updates == {"replace", "patch", "toggle"}

BodiesOf(op) ==
    CASE op = "replace" -> ConcCreateBodies
      [] op = "patch" -> ConcUpdateBodies
      [] OTHER -> {NoBody}

BodyValid(op, body) ==
    CASE op = "replace" -> TaskCreateValid(body)
      [] op = "patch" -> TaskUpdateValid(body)
      [] OTHER -> TRUE

\* the task in memory once the handler has changed it (lines 141-144, 182-188,
\* 209-210); delete_task changes nothing in memory
InMemory(op, task, body, now) ==
    CASE op = "replace" -> ApplyReplace(task, TaskCreate(body), now)
      [] op = "patch" -> ApplyPatch(task, TaskUpdate(body), now)
      [] op = "toggle" -> ApplyToggle(task, now)
      [] OTHER -> task

\* the handler up to its db.commit: validation, db.get, the 404, the changes
Begin(w) ==
    \E op \in Updates \cup {"delete"}, id \in Ids :
      \E body \in BodiesOf(op) :
        /\ last = NoRequest
        /\ sess[w].pc = "idle"
        /\ sess' = [sess EXCEPT ![w] =
             IF ~BodyValid(op, body)
             THEN Ended(op, id, body, 422)
             ELSE IF ~Found(store, id)
             THEN Ended(op, id, body, 404)
             ELSE Session("loaded", op, id, body, store[id],
                          InMemory(op, store[id], body, clock), 0)]
        /\ UNCHANGED <<store, nextId, clock, last, prev, lastCommit>>

\* db.commit of delete_task: the DELETE; a row already gone is only warned about
CommitDelete(w) ==
    /\ last = NoRequest
    /\ sess[w].pc = "loaded"
    /\ sess[w].op = "delete"
    /\ store' = IF Found(store, sess[w].id) THEN DeleteRow(store, sess[w].id) ELSE store
    /\ sess' = [sess EXCEPT ![w].pc = "done", ![w].code = 204]
    /\ lastCommit' = w
    /\ UNCHANGED <<nextId, clock, last, prev>>

\* db.commit and db.refresh of update_task, patch_task, toggle_task_status: the
\* UPDATE; when the row is gone the session raises and the transaction is
\* rolled back
CommitUpdate(w) ==
    /\ last = NoRequest
    /\ sess[w].pc = "loaded"
    /\ sess[w].op \in Updates
    /\ IF Found(store, sess[w].id)
       THEN /\ store' = Flush(store, sess[w].loaded, sess[w].task)
            /\ sess' = [sess EXCEPT ![w].pc = "done", ![w].code = 200]
            /\ lastCommit' = w
       ELSE /\ sess' = [sess EXCEPT ![w].pc = "done", ![w].code = 500]
            /\ UNCHANGED <<store, lastCommit>>
    /\ UNCHANGED <<nextId, clock, last, prev>>

NextConc ==
    \/ Tick
    \/ Create
    \/ Respond({})
    \/ \E w \in Workers : Begin(w)
    \/ \E w \in Workers : CommitDelete(w)
    \/ \E w \in Workers : CommitUpdate(w)

SpecConc == Init /\ [][NextConc]_vars

----------------------------------------------------------------------------
(* What the claims speak of, said without the operators of the model *)

Blank(x) == \A i \in DOMAIN x : x[i] = " "

\* t is x without its leading and trailing spaces
IsTrimOf(t, x) ==
    \E i \in 1..(Len(x) + 1), j \in 0..Len(x) :
        /\ t = [k \in 1..(j - i + 1) |-> x[i + k - 1]]
        /\ \A k \in 1..(i - 1) : x[k] = " "
        /\ \A k \in (j + 1)..Len(x) : x[k] = " "
        /\ t # <<>> => t[1] # " " /\ t[Len(t)] # " "

SameLetter(a, b) ==
    \/ a = b
    \/ {a, b} = {"a", "A"}
    \/ {a, b} = {"b", "B"}

\* the title holds the query somewhere, letter case ignored, "_" in the query
\* standing for any one character
TitleMatches(title, q) ==
    \/ q = None
    \/ q.v = <<>>
    \/ \E i \in 1..(Len(title) - Len(q.v) + 1) :
          \A j \in 1..Len(q.v) :
              q.v[j] = "_" \/ SameLetter(q.v[j], title[i + j - 1])

Matching(q) == {id \in DOMAIN store : TitleMatches(store[id].title, q)}

\* the arrangements of the matching tasks by created_at, latest first
NewestFirst(q) ==
    {s \in [1..Cardinality(Matching(q)) -> Matching(q)] :
        /\ \A i, j \in DOMAIN s : s[i] = s[j] => i = j
        /\ \A i \in DOMAIN s : i > 1 =>
              store[s[i - 1]].created_at >= store[s[i]].created_at}

Listed == last.op = "list" /\ last.code = 200

OnlyTitle(body) ==
    IsSome(body.title) /\ body.description = Omitted /\ body.status = Omitted

----------------------------------------------------------------------------
(* C1: for an existing task, a patch whose body omits description leaves the
   stored description as it was, and a patch that supplies description as
   null sets the stored description to null. *)
C1_PatchNullClearsDescription ==
    [][(last'.op = "patch" /\ last'.code = 200) =>
         /\ last'.body.description = Omitted =>
               store'[last'.id].description = store[last'.id].description
         /\ last'.body.description = None =>
               store'[last'.id].description = None]_vars

(* C2: a patch of an existing task with a valid title X and with description
   and status omitted changes the task's title to X trimmed and its
   updated_at, and nothing else: the task's id, description, status and
   created_at and every other task are as before. *)
C2_PatchTitleOnly ==
    [][(last'.op = "patch" /\ last'.code = 200 /\ OnlyTitle(last'.body)) =>
         /\ DOMAIN store' = DOMAIN store
         /\ \A i \in DOMAIN store : i # last'.id => store'[i] = store[i]
         /\ IsTrimOf(store'[last'.id].title, last'.body.title.v)
         /\ \A c \in {"id", "description", "status", "created_at"} :
               store'[last'.id][c] = store[last'.id][c]]_vars

C2_Witness ==
    /\ last.op = "patch" /\ last.code = 200 /\ OnlyTitle(last.body)
    /\ last.body.title.v = <<" ", "a">>
    /\ store[last.id].description = Some("d")
    /\ store[last.id].status = COMPLETED
    /\ store[last.id].updated_at > store[last.id].created_at
    /\ Cardinality(DOMAIN store) = 2

(* C3: a list call with page >= 1 and page_size in 1..100 returns at most
   page_size items and a total equal to the number of stored tasks matching
   the query (all tasks when the query is absent or empty), whatever the page
   and page_size. *)
C3_ListTotal ==
    Listed =>
        /\ Len(last.items) <= last.page_size
        /\ last.total = Cardinality(Matching(last.q))

C3_Witness ==
    /\ Listed
    /\ last.q = Some(<<"A">>)
    /\ last.page = 2
    /\ last.total = 1
    /\ Cardinality(DOMAIN store) = 2

(* C4: every stored task has updated_at >= created_at, in every reachable
   state. *)
C4_UpdatedNotBeforeCreated ==
    \A id \in DOMAIN store : store[id].updated_at >= store[id].created_at

C4_Witness ==
    /\ last.op \in {"replace", "patch", "toggle"} /\ last.code = 200
    /\ store[last.id].updated_at > store[last.id].created_at

(* C5: every stored title is non-empty and has no leading or trailing
   whitespace; a create, replace or patch whose title is empty or only
   whitespace is answered with a validation error and leaves the table as it
   was, no row inserted or changed. *)
C5_TitleNeverBlank ==
    /\ [](\A id \in DOMAIN store :
            /\ store[id].title # <<>>
            /\ store[id].title[1] # " "
            /\ store[id].title[Len(store[id].title)] # " ")
    /\ [][(/\ last'.op \in {"create", "replace", "patch"}
           /\ IsSome(last'.body.title)
           /\ Blank(last'.body.title.v)) =>
             /\ last'.code = 422
             /\ store' = store
             /\ nextId' = nextId]_vars

C5_Witness ==
    /\ last.op = "create" /\ last.code = 422
    /\ last.body.title = Some(<<" ">>)
    /\ last.body.status = Omitted
    /\ \E id \in DOMAIN store : store[id].title = <<"a">>

(* C6: getById, replace, patch, toggleStatus and delete of an id that is not
   in the table, the body being valid, answer not-found and leave the whole
   table as it was; so does every repeated delete of a deleted id. *)
C6_NotFoundChangesNothing ==
    [][(/\ last'.op \in {"get", "replace", "patch", "toggle", "delete"}
        /\ last'.id \notin DOMAIN store
        /\ last'.code # 422) =>
          /\ last'.code = 404
          /\ store' = store
          /\ nextId' = nextId]_vars

C6_Witness ==
    /\ last.op = "delete" /\ last.code = 404
    /\ last.id < nextId
    /\ last.id \notin DOMAIN store
    /\ store # << >>

(* C7: a toggle of an existing task sets updated_at to the clock at that call,
   flips the status and leaves id, title, description and created_at as they
   were; two toggles of one task in succession bring back the status it had
   before the first. *)
C7_ToggleTwice ==
    /\ []((last.op = "toggle" /\ last.code = 200 /\ last.before2 # NoStatus) =>
            store[last.id].status = last.before2)
    /\ [][(last'.op = "toggle" /\ last'.code = 200) =>
            /\ store'[last'.id].updated_at = clock
            /\ store'[last'.id].status # store[last'.id].status
            /\ store'[last'.id].status \in {"pending", "completed"}
            /\ \A c \in {"id", "title", "description", "created_at"} :
                  store'[last'.id][c] = store[last'.id][c]]_vars

C7_Witness ==
    /\ last.op = "toggle" /\ last.code = 200
    /\ last.before2 = COMPLETED
    /\ store[last.id].updated_at > store[last.id].created_at

(* C8: when updates of one task by two workers overlap, the title,
   description and status stored once both have committed are those the
   worker that committed last computed, never fields of both. *)
C8_LastWriterWins ==
    \A w \in Workers :
        (/\ sess[w].pc = "done" /\ sess[w].code = 200
         /\ sess[w].op \in Updates
         /\ lastCommit = w) =>
            \A c \in {"title", "description", "status"} :
                store[sess[w].id][c] = sess[w].task[c]

(* C9: the items of a list call are the tasks at places (page-1)*page_size + 1
   to (page-1)*page_size + page_size of the matching tasks arranged by
   created_at, latest first; when (page-1)*page_size is at or past their
   number the items are empty and the total is still that number. *)
C9_ListPage ==
    Listed =>
        LET first == (last.page - 1) * last.page_size
            n == Cardinality(Matching(last.q))
            m == IF first >= n THEN 0
                 ELSE IF n - first < last.page_size THEN n - first
                 ELSE last.page_size
        IN /\ \E s \in NewestFirst(last.q) :
                 last.items = [k \in 1..m |-> s[first + k]]
           /\ first >= n => last.items = <<>> /\ last.total = n

C9_Witness ==
    /\ Listed
    /\ last.page = 2 /\ last.page_size = 1 /\ last.q = None
    /\ last.total = 2
    /\ Len(last.items) = 1
    /\ store[1].created_at < store[2].created_at

C9_WitnessPastTheEnd ==
    /\ Listed
    /\ last.page = 3 /\ last.page_size = 1
    /\ last.total = 2
    /\ last.items = <<>>

(* C10: with no change to the table in between, two list calls with the same
   page_size and query return the same items in the same order for the same
   page, and no task twice for two different pages. *)
C10_ListDeterministic ==
    (/\ Listed /\ prev.op = "list"
     /\ prev.page_size = last.page_size /\ prev.q = last.q) =>
        /\ prev.page = last.page => prev.items = last.items
        /\ prev.page # last.page =>
              \A i \in DOMAIN prev.items, j \in DOMAIN last.items :
                  prev.items[i] # last.items[j]

====
